---- MODULE Spec2Model ----
(***************************************************************************)
(* WebContainerTransport (src/webcontainer-transport.ts): the lifecycle of *)
(* start()/send()/close() as interleaved asynchronous calls on one         *)
(* transport instance, and the line decoder _handleProcessOutput.          *)
(*                                                                         *)
(* Every async method is cut at its awaits: one action runs the code from  *)
(* one suspension point to the next (or to the method's end), so actions   *)
(* of different calls interleave exactly where the event loop lets them.   *)
(***************************************************************************)
EXTENDS Naturals, Sequences, FiniteSets

\* ------------------------------------------------------------------ bounds

\* Calls (start/send/close) issued on the instance in one behaviour.
MaxCalls == 3
\* Total length of the output text all processes write, in characters.
MaxOut == 5

\* --------------------------------------------------------------- constants

None == 0                       \* an undefined handle (this._process, ...)
CallIds == 1 .. MaxCalls

\* Errors, named after what raises them.
ErrAlreadyStarted == "WebContainerTransport already started!"
ErrNotStarted == "Transport not started"
ErrBoot == "boot rejected"
ErrMount == "mount rejected"
ErrSpawn == "spawn rejected"
ErrType == "TypeError: undefined handle"
ErrLocked == "TypeError: stream locked"
ErrWrite == "write rejected"

\* The JSON-RPC messages of the model, by id.
MsgIds == {1, 2}
Msg(id) == [jsonrpc |-> "2.0", id |-> id]

\* Characters of the output stream.  "A" and "B" each stand for the whole
\* text of one JSON-RPC message object; "1" is a digit (an ANSI parameter and,
\* alone on a line, a JSON number); "m" is a letter (an ANSI final byte and,
\* on a line, log text that is not JSON).
ESC == "ESC"
CR == "CR"
LF == "LF"
SP == "SP"
Digits == {"1"}
Letters == {"m"}
MsgTexts == {"A", "B"}
Alphabet == {ESC, "[", CR, LF, SP} \cup Digits \cup Letters \cup MsgTexts

\* ------------------------------------------------------------------- state

VARIABLES
    options,        \* this._options (constructor input, never mutated)
    started,        \* this._started
    initialized,    \* this._initialized
    webContainer,   \* this._webContainer : None or a container id
    process,        \* this._process : None or a process id
    outputBuffer,   \* this._outputBuffer
    calls,          \* the async calls: what each is, and where it is suspended
    containers,     \* the runtime: state of every container ever booted
    procs,          \* the runtime: every process ever spawned
    statusLog,      \* onStatusChange notifications, in order, with the call
    errorLog,       \* onerror notifications, in order, with the call
    messageLog,     \* onmessage notifications, in order
    killCalls,      \* number of kill() invocations
    teardownCalls,  \* number of teardown() invocations
    rawOut,         \* all text handed to _handleProcessOutput, concatenated
    offered         \* the complete non-blank lines decoded, in order

vars == <<options, started, initialized, webContainer, process, outputBuffer,
          calls, containers, procs, statusLog, errorLog, messageLog,
          killCalls, teardownCalls, rawOut, offered>>

transportVars == <<started, initialized, webContainer, process>>
decoderVars == <<outputBuffer, messageLog, rawOut, offered>>
runtimeVars == <<containers, procs, killCalls, teardownCalls>>

\* ----------------------------------------------------------------- options

NoFiles == [f \in {} |-> ""]

\* FileBasedOptions.files: index.js, with or without a package.json, whose
\* content may be the empty string.
FileMaps ==
    { [f \in {"index.js"} |-> "code"] }
    \cup { [f \in {"index.js", "package.json"} |->
              IF f = "index.js" THEN "code" ELSE content] : content \in {"", "{}"} }

Configs ==
    { [type |-> "files", files |-> fm] : fm \in FileMaps }
    \cup { [type |-> "spawn", files |-> NoFiles] }

\* JavaScript truthiness of a possibly missing string property.
Truthy(files, key) == key \in DOMAIN files /\ files[key] # ""

\* if (this._options.files["package.json"])
InstallWanted(opts) == Truthy(opts.files, "package.json")

\* -------------------------------------------------------------------- calls

IdleCall == [op |-> "none", pc |-> "idle", err |-> "none", wc |-> None,
             proc |-> None, msg |-> 0, fired |-> 0]

\* Calls are issued in the order of their ids.
NextCall(c) == calls[c].pc = "idle" /\ \A d \in CallIds : d < c => calls[d].pc # "idle"

Settled(c) == calls[c].pc \in {"done", "threw"}

Status(c, s) == [call |-> c, status |-> s]

\* The statuses call c passed to onStatusChange, in order.
StatusesOf(c) ==
    LET Mine(e) == e.call = c
        mine == SelectSeq(statusLog, Mine)
    IN [i \in 1 .. Len(mine) |-> mine[i].status]

\* The errors call c passed to onerror, in order.
ErrorsOf(c) ==
    LET Mine(e) == e.call = c
        mine == SelectSeq(errorLog, Mine)
    IN [i \in 1 .. Len(mine) |-> mine[i].err]

\* ------------------------------------------------------------------ runtime

\* A process just spawned in container wc by start() call `by`: `exited` and
\* `code` are its exit signal, `emitted` counts the characters it has written.
NewProc(wc, kind, by) ==
    [wc |-> wc, kind |-> kind, by |-> by, killed |-> FALSE, locked |-> FALSE,
     piped |-> FALSE, input |-> <<>>, exited |-> FALSE, code |-> 0, emitted |-> 0]

Live(wc) == wc # None /\ containers[wc] = "live"

Init ==
    /\ options \in Configs
    /\ started = FALSE
    /\ initialized = FALSE
    /\ webContainer = None
    /\ process = None
    /\ outputBuffer = <<>>
    /\ calls = [c \in CallIds |-> IdleCall]
    /\ containers = <<>>
    /\ procs = <<>>
    /\ statusLog = <<>>
    /\ errorLog = <<>>
    /\ messageLog = <<>>
    /\ killCalls = 0
    /\ teardownCalls = 0
    /\ rawOut = <<>>
    /\ offered = <<>>

\* ------------------------------------------------------------------ start()

\* if (this._started) throw ...                                    (line 83)
StartGuardInitialized == initialized
StartGuard == started

\* catch (error) { this._started = false; this.onerror?.(error); throw error }
StartCatch(c, e) ==
    /\ started' = FALSE
    /\ errorLog' = Append(errorLog, [call |-> c, err |-> e])
    /\ calls' = [calls EXCEPT ![c] = [@ EXCEPT !.pc = "threw", !.err = e,
                                               !.wc = None, !.proc = None]]

\* start(), from the call to the await of WebContainer.boot (lines 82-91).
StartCall(c) ==
    /\ NextCall(c)
    /\ IF StartGuard
       THEN /\ calls' = [calls EXCEPT ![c] = [IdleCall EXCEPT !.op = "start",
                             !.pc = "threw", !.err = ErrAlreadyStarted]]
            /\ UNCHANGED <<started, statusLog>>
       ELSE /\ started' = TRUE
            /\ statusLog' = Append(statusLog, Status(c, "booting"))
            /\ calls' = [calls EXCEPT ![c] = [IdleCall EXCEPT !.op = "start",
                                                              !.pc = "boot"]]
    /\ UNCHANGED <<options, initialized, webContainer, process, errorLog>>
    /\ UNCHANGED <<decoderVars, runtimeVars>>

\* boot settles; on success the code runs on to the await of mount (files) or
\* of spawn (spawn configuration)                              (lines 91-119).
StartBootDone(c) ==
    /\ calls[c].op = "start" /\ calls[c].pc = "boot"
    /\ \E ok \in BOOLEAN :
        IF ok
        THEN LET wc == Len(containers) + 1 IN
             /\ containers' = Append(containers, "live")
             /\ webContainer' = wc
             /\ statusLog' = Append(statusLog,
                    Status(c, IF options.type = "files" THEN "mounting" ELSE "running"))
             /\ calls' = [calls EXCEPT ![c] = [@ EXCEPT !.wc = wc,
                    !.pc = IF options.type = "files" THEN "mount" ELSE "spawn"]]
             /\ UNCHANGED <<started, errorLog>>
        ELSE /\ StartCatch(c, ErrBoot)
             /\ UNCHANGED <<containers, webContainer, statusLog>>
    /\ UNCHANGED <<options, initialized, process, procs, killCalls, teardownCalls>>
    /\ UNCHANGED decoderVars

\* The code between two awaits that reports a status and then calls
\* this._webContainer.spawn: the field is read again after the await, so a
\* close() that ran meanwhile makes the call a TypeError   (lines 104-105, 109-111).
StartAnnounceAndSpawn(c, status, pc) ==
    /\ statusLog' = Append(statusLog, Status(c, status))
    /\ IF webContainer = None
       THEN StartCatch(c, ErrType)
       ELSE /\ calls' = [calls EXCEPT ![c] = [@ EXCEPT !.pc = pc, !.wc = webContainer,
                                                      !.proc = None]]
            /\ UNCHANGED <<started, errorLog>>

\* mount settles (lines 101-111).
StartMountDone(c) ==
    /\ calls[c].op = "start" /\ calls[c].pc = "mount"
    /\ \E ok \in BOOLEAN :
        /\ ok => Live(calls[c].wc)
        /\ IF ok
           THEN IF InstallWanted(options)
                THEN StartAnnounceAndSpawn(c, "installing", "installSpawn")
                ELSE StartAnnounceAndSpawn(c, "running", "spawn")
           ELSE /\ StartCatch(c, ErrMount)
                /\ UNCHANGED statusLog
    /\ UNCHANGED <<options, initialized, webContainer, process>>
    /\ UNCHANGED <<decoderVars, runtimeVars>>

\* spawn("npm", ["install"]) settles; then await installProcess.exit
\* (lines 105-106).
StartInstallSpawned(c) ==
    /\ calls[c].op = "start" /\ calls[c].pc = "installSpawn"
    /\ \E ok \in BOOLEAN :
        /\ ok => Live(calls[c].wc)
        /\ IF ok
           THEN /\ procs' = Append(procs, NewProc(calls[c].wc, "install", c))
                /\ calls' = [calls EXCEPT ![c] = [@ EXCEPT !.pc = "installExit",
                                                        !.proc = Len(procs) + 1]]
                /\ UNCHANGED <<started, errorLog>>
           ELSE /\ StartCatch(c, ErrSpawn)
                /\ UNCHANGED procs
    /\ UNCHANGED <<options, initialized, webContainer, process, statusLog>>
    /\ UNCHANGED <<decoderVars, containers, killCalls, teardownCalls>>

ExitCodes == {0, 1}

\* await installProcess.exit: whether the exit code makes start() fail.  The
\* awaited value is discarded                                    (line 106)
InstallFailed(code) == FALSE

ErrInstall == "install failed"

\* installProcess.exit resolves with any code; the code is not looked at
\* (lines 106-111).
StartInstallExit(c) ==
    /\ calls[c].op = "start" /\ calls[c].pc = "installExit"
    /\ \E code \in ExitCodes :
        /\ procs' = [procs EXCEPT ![calls[c].proc].exited = TRUE,
                                  ![calls[c].proc].code = code]
        /\ IF InstallFailed(code)
           THEN /\ StartCatch(c, ErrInstall)
                /\ UNCHANGED statusLog
           ELSE StartAnnounceAndSpawn(c, "running", "spawn")
    /\ UNCHANGED <<options, initialized, webContainer, process>>
    /\ UNCHANGED <<decoderVars, containers, killCalls, teardownCalls>>

\* spawn of the server process settles: this._process is set, its output is
\* piped into _handleProcessOutput, _initialized = true      (lines 111-130).
StartSpawnDone(c) ==
    /\ calls[c].op = "start" /\ calls[c].pc = "spawn"
    /\ \E ok \in BOOLEAN :
        /\ ok => Live(calls[c].wc)
        /\ IF ok
           THEN /\ procs' = Append(procs,
                       [NewProc(calls[c].wc, "server", c) EXCEPT !.piped = TRUE])
                /\ process' = Len(procs) + 1
                /\ initialized' = TRUE
                /\ calls' = [calls EXCEPT ![c] = [@ EXCEPT !.pc = "done", !.wc = None]]
                /\ UNCHANGED <<started, errorLog>>
           ELSE /\ StartCatch(c, ErrSpawn)
                /\ UNCHANGED <<procs, process, initialized>>
    /\ UNCHANGED <<options, webContainer, statusLog>>
    /\ UNCHANGED <<decoderVars, containers, killCalls, teardownCalls>>

\* ------------------------------------------------------------------- send()

\* JSON.stringify: the text of a message object.
Stringify(msg) == IF msg.id = 1 THEN "A" ELSE "B"

\* JSON.stringify(message) + "\n"                                 (line 146)
Serialize(m) == <<Stringify(Msg(m)), LF>>

\* if (!this._process) throw new Error("Transport not started")   (line 140)
SendGuard == process = None

\* catch (error) { this.onerror?.(error); throw error }     (lines 149-152)
SendCatchSilent(c, e) == errorLog
SendCatch(c, e) == Append(errorLog, [call |-> c, err |-> e])

\* send(), from the call to the await of writer.write (lines 139-147).
\* getWriter() throws on a stream whose writer is still locked.
SendCall(c, m) ==
    /\ NextCall(c)
    /\ IF SendGuard
       THEN /\ calls' = [calls EXCEPT ![c] = [IdleCall EXCEPT !.op = "send",
                             !.msg = m, !.pc = "threw", !.err = ErrNotStarted]]
            /\ UNCHANGED <<errorLog, procs>>
       ELSE IF procs[process].locked
       THEN /\ errorLog' = SendCatch(c, ErrLocked)
            /\ calls' = [calls EXCEPT ![c] = [IdleCall EXCEPT !.op = "send",
                             !.msg = m, !.pc = "threw", !.err = ErrLocked]]
            /\ UNCHANGED procs
       ELSE /\ procs' = [procs EXCEPT ![process].locked = TRUE]
            /\ calls' = [calls EXCEPT ![c] = [IdleCall EXCEPT !.op = "send",
                             !.msg = m, !.pc = "write", !.proc = process]]
            /\ UNCHANGED errorLog
    /\ UNCHANGED <<options, transportVars, statusLog, decoderVars>>
    /\ UNCHANGED <<containers, killCalls, teardownCalls>>

\* writer.write settles: on success the lock is released (line 148); on
\* failure control jumps to the catch block, past releaseLock().
SendWriteDone(c) ==
    /\ calls[c].op = "send" /\ calls[c].pc = "write"
    /\ \E ok \in BOOLEAN :
        LET p == calls[c].proc IN
        IF ok
        THEN /\ procs' = [procs EXCEPT ![p].input = Append(@, Serialize(calls[c].msg)),
                                       ![p].locked = FALSE]
             /\ calls' = [calls EXCEPT ![c] = [@ EXCEPT !.pc = "done", !.proc = None]]
             /\ UNCHANGED errorLog
        ELSE /\ errorLog' = SendCatch(c, ErrWrite)
             /\ calls' = [calls EXCEPT ![c] = [@ EXCEPT !.pc = "threw", !.err = ErrWrite]]
             /\ UNCHANGED procs
    /\ UNCHANGED <<options, transportVars, statusLog, decoderVars>>
    /\ UNCHANGED <<containers, killCalls, teardownCalls>>

\* ------------------------------------------------------------------ close()

ErrTeardown == "teardown threw"

\* if (this._started) onStatusChange("unmounting")          (lines 156-158)
CloseAnnounced(c) ==
    IF started THEN Append(statusLog, Status(c, "unmounting")) ELSE statusLog

\* if (this._process)                                             (line 160)
CloseHasProcessAlways == TRUE
CloseHasProcess == process # None

\* try { ... this._webContainer.teardown() } catch (error) { }: whether a
\* throwing teardown leaves the block as an exception       (lines 171-176)
TeardownEscapesUncaught(ok) == ~ok
TeardownEscapes(ok) == FALSE

\* close() from `if (this._webContainer)` to its end (lines 170-183), run
\* with `log` the status notifications so far.
CloseRest(c, op, log) ==
    \E ok \in BOOLEAN :
        IF webContainer # None
        THEN /\ statusLog' = Append(log, Status(c, "teardowned"))
             /\ teardownCalls' = teardownCalls + 1
             /\ containers' = IF ok THEN [containers EXCEPT ![webContainer] = "down"]
                                    ELSE containers
             /\ IF TeardownEscapes(ok)
                THEN /\ calls' = [calls EXCEPT ![c] = [IdleCall EXCEPT !.op = op,
                                      !.pc = "threw", !.err = ErrTeardown]]
                     /\ UNCHANGED <<webContainer, started, initialized>>
                ELSE /\ webContainer' = None
                     /\ started' = FALSE
                     /\ initialized' = FALSE
                     /\ calls' = [calls EXCEPT ![c] = [IdleCall EXCEPT !.op = op,
                                      !.pc = "done", !.fired = 1]]
        ELSE /\ statusLog' = log
             /\ started' = FALSE
             /\ initialized' = FALSE
             /\ calls' = [calls EXCEPT ![c] = [IdleCall EXCEPT !.op = op,
                              !.pc = "done", !.fired = 1]]
             /\ UNCHANGED <<webContainer, teardownCalls, containers>>

\* kill?.() on the process handle: a kill that does not throw ends the process.
Kill(p, ok) ==
    IF p # None /\ ok THEN [procs EXCEPT ![p].killed = TRUE] ELSE procs

\* close(), from the call to the await of the grace timer; when there is no
\* process, or kill throws (the catch skips the timer), to its end
\* (lines 155-184).
CloseCall(c) ==
    /\ NextCall(c)
    /\ \E killOk \in BOOLEAN :
        IF CloseHasProcess
        THEN /\ killCalls' = killCalls + 1
             /\ procs' = Kill(process, killOk)
             /\ IF killOk
                THEN /\ statusLog' = CloseAnnounced(c)
                     /\ calls' = [calls EXCEPT ![c] = [IdleCall EXCEPT !.op = "close",
                                      !.pc = "grace"]]
                     /\ UNCHANGED <<transportVars, containers, teardownCalls>>
                ELSE /\ process' = None
                     /\ CloseRest(c, "close", CloseAnnounced(c))
        ELSE /\ CloseRest(c, "close", CloseAnnounced(c))
             /\ UNCHANGED <<process, procs, killCalls>>
    /\ UNCHANGED <<options, errorLog, decoderVars>>

\* The grace timer fires: this._process = undefined, then the rest of close()
\* (lines 164-183).
CloseGraceElapsed(c) ==
    /\ calls[c].op = "close" /\ calls[c].pc = "grace"
    /\ process' = None
    /\ CloseRest(c, "close", statusLog)
    /\ UNCHANGED <<options, errorLog, decoderVars, procs, killCalls>>

\* ---------------------------------------------------- _handleProcessOutput

\* The end of the run of parameter characters [0-9;]* that starts at i.
RECURSIVE ParamsEnd(_, _)
ParamsEnd(s, i) ==
    IF i <= Len(s) /\ s[i] \in Digits THEN ParamsEnd(s, i + 1) ELSE i

\* The index of the last character of a match of /\x1b\[[0-9;]*[a-zA-Z]/ that
\* starts at i, or 0 when none starts there.
AnsiEnd(s, i) ==
    IF s[i] = ESC /\ i + 1 <= Len(s) /\ s[i + 1] = "["
    THEN LET j == ParamsEnd(s, i + 2)
         IN IF j <= Len(s) /\ s[j] \in Letters THEN j ELSE 0
    ELSE 0

\* data.replace(/\x1b\[[0-9;]*[a-zA-Z]/g, "")                     (line 190)
RECURSIVE StripAnsiFrom(_, _)
StripAnsiFrom(s, i) ==
    IF i > Len(s) THEN <<>>
    ELSE LET e == AnsiEnd(s, i)
         IN IF e # 0 THEN StripAnsiFrom(s, e + 1)
                     ELSE <<s[i]>> \o StripAnsiFrom(s, i + 1)

StripAnsi(s) == StripAnsiFrom(s, 1)

\* data.replace(/[\r\x1b]/g, "")                                  (line 191)
StripCrEsc(s) ==
    LET Kept(ch) == ch \notin {CR, ESC}
    IN SelectSeq(s, Kept)

DropTrailingCR(seg) ==
    IF Len(seg) > 0 /\ seg[Len(seg)] = CR THEN SubSeq(seg, 1, Len(seg) - 1) ELSE seg

\* buffer.split(/\r?\n/): the segments between the separators, the last one
\* (possibly empty) included                                      (line 194)
RECURSIVE SplitFrom(_, _, _)
SplitFrom(s, i, seg) ==
    IF i > Len(s) THEN <<seg>>
    ELSE IF s[i] = LF THEN <<DropTrailingCR(seg)>> \o SplitFrom(s, i + 1, <<>>)
    ELSE SplitFrom(s, i + 1, Append(seg, s[i]))

SplitLines(s) == SplitFrom(s, 1, <<>>)

Whitespace == {SP, CR, LF}

\* String.prototype.trim
RECURSIVE Trim(_)
Trim(s) ==
    IF s = <<>> THEN s
    ELSE IF s[1] \in Whitespace THEN Trim(Tail(s))
    ELSE IF s[Len(s)] \in Whitespace THEN Trim(SubSeq(s, 1, Len(s) - 1))
    ELSE s

\* JSON.parse(line): a message text parses to its object, a run of digits to
\* a number, anything else is a SyntaxError (whitespace around the value is
\* allowed)                                                       (line 201)
JSONParse(line) ==
    LET t == Trim(line) IN
    IF Len(t) = 1 /\ t[1] \in MsgTexts
    THEN [ok |-> TRUE, kind |-> "object",
          value |-> Msg(CHOOSE id \in MsgIds : Stringify(Msg(id)) = t[1])]
    ELSE IF t # <<>> /\ \A i \in 1 .. Len(t) : t[i] \in Digits
    THEN [ok |-> TRUE, kind |-> "number", value |-> Msg(0)]
    ELSE [ok |-> FALSE, kind |-> "none", value |-> Msg(0)]

\* JSONRPCMessageSchema.parse(parsed): only a message object passes (line 202)
SchemaAccepts(parsed) == parsed.ok /\ parsed.kind = "object"

\* try { ... } catch (error) { }: whether a line that fails to parse or to
\* validate leaves the loop body as an exception            (lines 200-206)
ValidationEscapesUncaught(line) == ~SchemaAccepts(JSONParse(line))
ValidationEscapes(line) == FALSE

\* for (const line of lines) { ... }                        (lines 197-207)
RECURSIVE ForEachLine(_, _, _)
ForEachLine(lines, i, out) ==
    IF i > Len(lines) THEN out
    ELSE LET line == lines[i] IN
         IF Trim(line) = <<>> THEN ForEachLine(lines, i + 1, out)
         ELSE LET parsed == JSONParse(line)
              IN IF SchemaAccepts(parsed)
                 THEN ForEachLine(lines, i + 1,
                          [out EXCEPT !.delivered = Append(@, parsed.value)])
                 ELSE IF ValidationEscapes(line)
                 THEN [out EXCEPT !.escaped = TRUE]
                 ELSE ForEachLine(lines, i + 1, out)

\* The complete lines the loop has to validate: those that are not blank.
NonBlank(lines) ==
    LET Kept(line) == Trim(line) # <<>>
    IN SelectSeq(lines, Kept)

\* this._outputBuffer = lines.pop() || "": the unterminated tail  (line 195)
RemainderFirst(segs) == segs[1]
Remainder(segs) == segs[Len(segs)]

\* _handleProcessOutput(data) run on buffer `buffer`: the new buffer, the
\* complete non-blank lines split off it, the messages passed to onmessage,
\* and whether an exception left the method                 (lines 189-208)
HandleProcessOutput(data, buffer) ==
    LET cleaned == StripCrEsc(StripAnsi(data))
        segs == SplitLines(buffer \o cleaned)
        lines == SubSeq(segs, 1, Len(segs) - 1)
        out == ForEachLine(lines, 1, [delivered |-> <<>>, escaped |-> FALSE])
    IN [buffer |-> Remainder(segs), offered |-> NonBlank(lines),
        delivered |-> out.delivered, escaped |-> out.escaped]

\* The chunks of at most n characters.
Chunks(n) == UNION { [1 .. k -> Alphabet] : k \in 1 .. n }

\* A process writes as long as it runs: it was not killed and its container
\* was not torn down.
Running(p) == ~procs[p].killed /\ Live(procs[p].wc)

\* The output stream of piped process p hands one chunk out of `chunks` to the
\* sink's write callback (lines 122-128).  Nothing ever cancels the pipe; an
\* exception leaving the callback errors the sink and ends it.
Emit(p, chunks) ==
    /\ procs[p].piped /\ Running(p)
    /\ \E data \in chunks :
        LET r == HandleProcessOutput(data, outputBuffer) IN
        /\ outputBuffer' = r.buffer
        /\ offered' = offered \o r.offered
        /\ messageLog' = messageLog \o r.delivered
        /\ rawOut' = rawOut \o data
        /\ procs' = [procs EXCEPT ![p].emitted = @ + Len(data),
                                  ![p].piped = ~r.escaped]
    /\ UNCHANGED <<options, transportVars, calls, statusLog, errorLog>>
    /\ UNCHANGED <<containers, killCalls, teardownCalls>>

\* The server process writes any chunk that fits the bound on the output.
ProcessOutput(p) == Emit(p, Chunks(MaxOut - Len(rawOut)))

\* ----------------------------------------------------------- specifications

StartSteps(c) ==
    \/ StartBootDone(c)
    \/ StartMountDone(c)
    \/ StartInstallSpawned(c)
    \/ StartInstallExit(c)
    \/ StartSpawnDone(c)

\* The lifecycle: any calls, interleaved at their awaits; the server process is
\* silent.
Next ==
    \E c \in CallIds :
        \/ StartCall(c)
        \/ StartSteps(c)
        \/ \E m \in MsgIds : SendCall(c, m)
        \/ SendWriteDone(c)
        \/ CloseCall(c)
        \/ CloseGraceElapsed(c)

Spec == Init /\ [][Next]_vars

\* The decoder: one start(), then the server process writes its output in
\* chunks of any sizes; the configuration is a spawn configuration.
DecodeInit == Init /\ options.type = "spawn"

DecodeNext ==
    \/ StartCall(1)
    \/ StartBootDone(1)
    \/ StartSpawnDone(1)
    \/ \E p \in 1 .. Len(procs) : ProcessOutput(p)

DecodeSpec == DecodeInit /\ [][DecodeNext]_vars

\* The lifecycle of the spawn configuration together with the output of the
\* server processes: start() and close() calls in any interleaving while every
\* running piped process writes, one character per chunk, a text of up to
\* MaxCycleOut characters made of a message and line terminators.
MaxCycleOut == 2

CycleChunks == {<<Stringify(Msg(1))>>, <<LF>>}

CycleOutput(p) == Len(rawOut) < MaxCycleOut /\ Emit(p, CycleChunks)

CycleNext ==
    \/ \E c \in CallIds :
        \/ StartCall(c)
        \/ StartBootDone(c)
        \/ StartSpawnDone(c)
        \/ CloseCall(c)
        \/ CloseGraceElapsed(c)
    \/ \E p \in 1 .. Len(procs) : CycleOutput(p)

CycleSpec == DecodeInit /\ [][CycleNext]_vars

\* The lifecycle with the event loop's guarantee that a timer that was set
\* fires: the grace timer of a suspended close() elapses.
FairSpec == Spec /\ \A c \in CallIds : WF_vars(CloseGraceElapsed(c))

\* ------------------------------------------------------------------- claims

IsStart(c) == calls[c].op = "start"
IsSend(c) == calls[c].op = "send"
IsClose(c) == calls[c].op = "close"

\* The status sequence the specification gives for the configuration: the
\* install step goes with the presence of the key "package.json".
ExpectedStatuses ==
    IF options.type = "spawn" THEN <<"booting", "running">>
    ELSE IF "package.json" \in DOMAIN options.files
    THEN <<"booting", "mounting", "installing", "running">>
    ELSE <<"booting", "mounting", "running">>

\* C1: a start() that completed successfully reported exactly booting,
\* mounting, installing, running (files, manifest present), booting, mounting,
\* running (files, no manifest) or booting, running (spawn).
C1_StatusSequence ==
    \A c \in CallIds :
        (IsStart(c) /\ calls[c].pc = "done") => StatusesOf(c) = ExpectedStatuses

\* C2: whenever the last status reported is "running", a process handle
\* exists, so that send() does not fail with "Transport not started".
C2_RunningHasProcess ==
    (statusLog # <<>> /\ statusLog[Len(statusLog)].status = "running")
        => process # None

C4_StartFailureRollsBack ==
    [][\A c \in CallIds :
        (IsStart(c) /\ ~Settled(c) /\ calls'[c].pc = "threw")
            => /\ errorLog' = Append(errorLog, [call |-> c, err |-> calls'[c].err])
               /\ ~started'
               /\ ~initialized']_vars

\* C5: a send() with no process handle raises "not started" without an error
\* notification and without touching any input stream; a send() whose write
\* fails fires the error callback exactly once, with the error it raises.
C5_SendErrors ==
    [][\A c \in CallIds :
        /\ (NextCall(c) /\ process = None /\ calls'[c].op = "send")
            => /\ calls'[c].pc = "threw"
               /\ calls'[c].err = ErrNotStarted
               /\ UNCHANGED <<errorLog, procs>>
        /\ (IsSend(c) /\ calls[c].pc = "write" /\ calls'[c].pc = "threw")
            => /\ calls'[c].err = ErrWrite
               /\ errorLog' = Append(errorLog, [call |-> c, err |-> ErrWrite])
               /\ \A p \in 1 .. Len(procs) : procs'[p].input = procs[p].input]_vars

\* C5 witness: one send() was refused for want of a process, without an error
\* notification, and another failed in its write, with exactly one.
C5_Witness ==
    \E c, d \in CallIds :
        /\ IsSend(c) /\ calls[c].err = ErrNotStarted /\ ErrorsOf(c) = <<>>
        /\ IsSend(d) /\ calls[d].err = ErrWrite /\ ErrorsOf(d) = <<ErrWrite>>

\* C6: an input stream's writer is locked only while a send() is suspended in
\* its write: once every send() on it has settled the writer is released.
C6_WriterReleased ==
    \A p \in 1 .. Len(procs) :
        procs[p].locked =>
            \E c \in CallIds : IsSend(c) /\ calls[c].pc = "write" /\ calls[c].proc = p

\* C7: a close() never raises, fires the close callback exactly once, when it
\* completes, and every close() completes, whatever kill and teardown do.
C7_CloseCompletes ==
    /\ [](\A c \in CallIds :
            IsClose(c) => /\ calls[c].pc # "threw"
                          /\ calls[c].fired = IF calls[c].pc = "done" THEN 1 ELSE 0)
    /\ \A c \in CallIds : IsClose(c) ~> (calls[c].pc = "done" /\ calls[c].fired = 1)

\* C7 witness: a close() completed with its close notification although the
\* teardown it attempted threw (the container is still live, the handle gone).
C7_Witness ==
    \E c \in CallIds :
        /\ IsClose(c) /\ calls[c].pc = "done" /\ calls[c].fired = 1
        /\ teardownCalls > 0 /\ webContainer = None
        /\ \A wc \in 1 .. Len(containers) : containers[wc] = "live"

NoStartYet == \A d \in CallIds : ~IsStart(d)

\* C8: a close() on an instance on which start() was never called completes
\* in the call, fires the close callback once, reports no status, and does
\* no kill and no teardown.
C8_CloseBeforeStart ==
    [][\A c \in CallIds :
        (NextCall(c) /\ NoStartYet /\ calls'[c].op = "close")
            => /\ calls'[c].pc = "done"
               /\ calls'[c].fired = 1
               /\ UNCHANGED <<statusLog, errorLog, runtimeVars>>]_vars

\* C8 witness: a close() has completed and no start() was ever called.
C8_Witness ==
    \E c \in CallIds :
        /\ IsClose(c) /\ calls[c].pc = "done" /\ calls[c].fired = 1
        /\ NoStartYet /\ statusLog = <<>> /\ killCalls = 0 /\ teardownCalls = 0

\* C9: the lines decoded from the output, however it was cut into chunks, are
\* the lines decoded from the same text handed over as one chunk.
C9_ChunkingInvariance ==
    offered = HandleProcessOutput(rawOut, <<>>).offered

ValidLine(line) == SchemaAccepts(JSONParse(line))

\* The messages of the valid lines among `lines`, in order.
MessagesOf(lines) ==
    LET valid == SelectSeq(lines, ValidLine)
    IN [i \in 1 .. Len(valid) |-> JSONParse(valid[i]).value]

\* C10: the messages delivered are exactly those of the valid lines decoded,
\* so an invalid line delivers nothing and hides no valid line after it; the
\* decoder fires no error notification and no exception ends the pipe.
C10_InvalidLinesDropped ==
    /\ messageLog = MessagesOf(offered)
    /\ rawOut # <<>> => errorLog = <<>>
    /\ \A p \in 1 .. Len(procs) : procs[p].kind = "server" => procs[p].piped

\* C10 witness: a line that is JSON but no message (a number) was decoded and
\* dropped, and the valid line after it was delivered.
C10_Witness ==
    /\ Len(offered) = 2
    /\ JSONParse(offered[1]).ok /\ ~ValidLine(offered[1])
    /\ ValidLine(offered[2])
    /\ messageLog = <<JSONParse(offered[2]).value>>
    /\ errorLog = <<>>

\* a is b with some elements left out: same order, none repeated.
RECURSIVE IsSubseq(_, _)
IsSubseq(a, b) ==
    IF a = <<>> THEN TRUE
    ELSE IF b = <<>> THEN FALSE
    ELSE IF Head(a) = Head(b) THEN IsSubseq(Tail(a), Tail(b))
    ELSE IsSubseq(a, Tail(b))

\* The number of line terminators in text.
Newlines(text) == Cardinality({i \in 1 .. Len(text) : text[i] = LF})

\* The messages of the lines the process has written, in the order written.
WrittenMessages == MessagesOf(HandleProcessOutput(rawOut, <<>>).offered)

\* C11: whatever the chunking, the messages delivered are messages of the
\* lines written, in the order written and each at most once; and a step
\* delivers a message only when it receives a line terminator.
C11_FifoDelivery ==
    /\ [](IsSubseq(messageLog, WrittenMessages))
    /\ [][Newlines(rawOut') = Newlines(rawOut) => messageLog' = messageLog]_vars

\* C11 witness: two different messages were delivered in the order written
\* while a third line, not yet terminated, waits in the buffer.
C11_Witness ==
    /\ Len(messageLog) = 2 /\ messageLog[1] # messageLog[2]
    /\ messageLog = WrittenMessages
    /\ outputBuffer # <<>>

Range(seq) == {seq[i] : i \in 1 .. Len(seq)}

\* start() call c spawned the install command.
InstallSpawned(c) ==
    \E p \in 1 .. Len(procs) : procs[p].kind = "install" /\ procs[p].by = c

\* start() call c went past the mount, to the decision of line 103.
PastMount(c) ==
    IsStart(c) /\ Range(StatusesOf(c)) \cap {"installing", "running"} # {}

\* C12: with the files configuration, a start() that went past the mount
\* reported "installing" exactly when the file mapping has the key
\* "package.json", whatever its content, and spawned the install command only
\* after reporting it.
C12_InstallIffManifestKey ==
    \A c \in CallIds :
        (options.type = "files" /\ PastMount(c)) =>
            /\ "installing" \in Range(StatusesOf(c))
                   <=> "package.json" \in DOMAIN options.files
            /\ InstallSpawned(c) => "installing" \in Range(StatusesOf(c))

\* The place of a status in the order booting, mounting, installing, running,
\* unmounting, teardowned.
StatusOrder ==
    <<"booting", "mounting", "installing", "running", "unmounting", "teardowned">>

Rank(s) == CHOOSE i \in 1 .. Len(StatusOrder) : StatusOrder[i] = s

\* Notifications i < j belong to the same start/close cycle: no start() began
\* (reported "booting") after i and up to j.
SameCycle(i, j) == \A k \in i + 1 .. j : statusLog[k].status # "booting"

\* C13: within one start/close cycle the statuses reported, by whichever call,
\* strictly advance in the order booting, mounting, installing, running,
\* unmounting, teardowned: none after a later one, none twice.
C13_StatusOrder ==
    \A i, j \in 1 .. Len(statusLog) :
        (i < j /\ SameCycle(i, j)) =>
            Rank(statusLog[i].status) < Rank(statusLog[j].status)

\* C14: in every reachable state initialized implies started, and a process
\* handle exists only while started is true.
C14_FlagInvariants ==
    /\ initialized => started
    /\ process # None => started

\* The environments booted and not torn down.
LiveContainers == {w \in 1 .. Len(containers) : containers[w] = "live"}

\* The server processes spawned and still running.
LiveServers == {p \in 1 .. Len(procs) : procs[p].kind = "server" /\ Running(p)}

\* C15: at most one environment is booted and not torn down, at most one
\* server process is spawned and not killed, and every environment not torn
\* down is the one the transport holds.
C15_NoLeak ==
    /\ Cardinality(LiveContainers) <= 1
    /\ Cardinality(LiveServers) <= 1
    /\ \A w \in LiveContainers : webContainer = w

\* Call c begins a start(): it is issued and passes the guard of line 83.
StartBegins(c) == NextCall(c) /\ calls'[c].op = "start" /\ calls'[c].pc = "boot"

\* C16: the output buffer is not carried across a close/start cycle: at every
\* step in which a start() begins, the decoder's buffer is empty.
C16_FreshBuffer == [][\A c \in CallIds : StartBegins(c) => outputBuffer = <<>>]_vars

\* Call c is issued as a close() in this step.
CloseBegins(c) == NextCall(c) /\ calls'[c].op = "close"

\* The grace delay of close() call c ends in this step.
GraceEnds(c) == calls[c].pc = "grace" /\ calls'[c].pc # "grace"

\* C17: a close() that finds a process attempts the kill and then waits the
\* grace delay, whether or not the kill failed, before it attempts the
\* teardown; when the delay ends it attempts the teardown of the environment
\* it holds.
C17_KillGraceTeardown ==
    [][\A c \in CallIds :
        /\ (CloseBegins(c) /\ process # None) =>
               /\ killCalls' = killCalls + 1
               /\ calls'[c].pc = "grace"
               /\ teardownCalls' = teardownCalls
        /\ (GraceEnds(c) /\ webContainer # None) =>
               teardownCalls' = teardownCalls + 1]_vars

\* The exit of the install command spawned by start() call c has resolved.
InstallExited(c) ==
    \E p \in 1 .. Len(procs) :
        procs[p].kind = "install" /\ procs[p].by = c /\ procs[p].exited

\* start() call c called spawn for the entrypoint: it waits for the spawn, the
\* spawn resolved, or the spawn rejected (after "running", so that it is not
\* the spawn of the install command that rejected).
EntrypointSpawned(c) ==
    \/ calls[c].pc \in {"spawn", "done"}
    \/ calls[c].err = ErrSpawn /\ "running" \in Range(StatusesOf(c))

\* C18: with a manifest among the files, a start() neither reports "running"
\* nor spawns the entrypoint before the exit of the install command has
\* resolved, and once it has resolved, with whatever code, the start() has
\* reported "running" and spawned the entrypoint.
C18_InstallAwaited ==
    \A c \in CallIds :
        (IsStart(c) /\ options.type = "files"
                    /\ "package.json" \in DOMAIN options.files) =>
            /\ "running" \in Range(StatusesOf(c)) => InstallExited(c)
            /\ EntrypointSpawned(c) => InstallExited(c)
            /\ InstallExited(c) =>
                   "running" \in Range(StatusesOf(c)) /\ EntrypointSpawned(c)

\* C19: every "teardowned" notification comes after an "unmounting"
\* notification of the same close() call.
C19_UnmountingBeforeTeardowned ==
    \A i \in 1 .. Len(statusLog) :
        statusLog[i].status = "teardowned" =>
            \E j \in 1 .. i - 1 :
                /\ statusLog[j].call = statusLog[i].call
                /\ statusLog[j].status = "unmounting"

\* The cycle of the start() that spawned process p is closed: a close() issued
\* after that start() has run to its end and fired the close callback.
CycleClosed(p) ==
    \E k \in CallIds :
        /\ k > procs[p].by
        /\ IsClose(k) /\ calls[k].pc = "done" /\ calls[k].fired = 1

\* Process p hands a chunk of output to the decoder in this step.
Emits(p) == p <= Len(procs) /\ procs'[p].emitted > procs[p].emitted

\* C20: once a close() has fired the close callback, output of the process of
\* the cycle it closed fires no message callback.
C20_SilentAfterClose ==
    [][\A p \in 1 .. Len(procs) :
        (CycleClosed(p) /\ Emits(p)) => messageLog' = messageLog]_vars

====
